---- MODULE Spec2Model ----
(***************************************************************************)
(* Model of net-route's Linux backend (src/platform_impl/linux.rs): the    *)
(* Handle facade over rtnetlink (route and rule requests), the             *)
(* RouteMessage -> Route decoder, the listener task and the broadcast      *)
(* channel behind route_listen_stream().                                   *)
(*                                                                         *)
(* Several state machines share the module:                                *)
(*   Spec        route operations against the kernel routing table         *)
(*   SpecRules   rule operations against the kernel rule table             *)
(*   SpecEvents  kernel feed -> listen -> broadcast(16) -> one stream      *)
(*   SpecStreams the same relay with two streams of a running Handle       *)
(*   SpecRelay   calls of every kind next to a short run of the relay      *)
(*   SpecCodec   the request of add and the decoder on full Route values   *)
(* Option<T> is a sequence: None is <<>>, Some(x) is <<x>>.                *)
(* An IP address is <<version, value>>; value 0 is the unspecified one.    *)
(***************************************************************************)
EXTENDS Integers, Sequences, FiniteSets, TLC

VARIABLES krt, krules, last,
          feed, emitted, chan, txHandle, listenTask, connTask, subs,
          inflight

routeVars == <<krt>>
ruleVars  == <<krules>>
eventVars == <<feed, emitted, chan, txHandle, listenTask, connTask, subs>>
callVars  == <<inflight>>
vars      == <<krt, krules, last,
               feed, emitted, chan, txHandle, listenTask, connTask, subs,
               inflight>>

(***************************************************************************)
(* Bounds                                                                  *)
(***************************************************************************)
MaxRoutes == 3

None == <<>>
Some(x) == <<x>>

(***************************************************************************)
(* Sequence helpers                                                        *)
(***************************************************************************)
RemoveAt(s, i) == SubSeq(s, 1, i - 1) \o SubSeq(s, i + 1, Len(s))
InsertAt(s, i, x) == SubSeq(s, 1, i - 1) \o <<x>> \o SubSeq(s, i, Len(s))

(***************************************************************************)
(* Addresses and the Route value (crate::Route)                            *)
(***************************************************************************)
IpVersion(addr) == addr[1]

V4Unspecified == <<4, 0>>
V6Unspecified == <<6, 0>>

Net4   == <<4, 1>>
Net6   == <<6, 1>>
Gw4a   == <<4, 2>>
Gw4b   == <<4, 3>>
Gw6    == <<6, 2>>
Src4   == <<4, 4>>
Src6   == <<6, 4>>

RT_TABLE_MAIN == 254

MkRoute(dst, prefix, gw, table, metric) ==
    [destination |-> dst, prefix |-> prefix, source |-> None,
     source_prefix |-> 0, source_hint |-> None, gateway |-> gw,
     ifindex |-> None, table |-> table, metric |-> metric]

\* The Route values callers pass to add / delete.
RouteInputs ==
    { MkRoute(Net4, 24, Some(Gw4a), RT_TABLE_MAIN, None),
      MkRoute(Net4, 24, Some(Gw4b), RT_TABLE_MAIN, None),
      MkRoute(Net4, 24, Some(Gw4a), 300, None),
      MkRoute(Net4, 24, Some(Gw4a), RT_TABLE_MAIN, Some(100)),
      MkRoute(Net4, 24, None, RT_TABLE_MAIN, None),
      MkRoute(V4Unspecified, 0, Some(Gw4a), RT_TABLE_MAIN, None),
      MkRoute(Net4, 0, Some(Gw4a), RT_TABLE_MAIN, None),
      MkRoute(Net6, 64, Some(Gw6), RT_TABLE_MAIN, None),
      MkRoute(Net4, 24, Some(Gw6), RT_TABLE_MAIN, None),
      MkRoute(Net6, 64, Some(Gw4a), RT_TABLE_MAIN, None),
      [MkRoute(Net4, 24, None, RT_TABLE_MAIN, None)
          EXCEPT !.source_hint = Some(Src6)],
      [MkRoute(Net6, 64, None, RT_TABLE_MAIN, None)
          EXCEPT !.source = Some(Src4), !.source_prefix = 32],
      [MkRoute(Net4, 24, Some(Gw4b), 300, Some(100))
          EXCEPT !.source = Some(Src4), !.source_prefix = 32,
                 !.source_hint = Some(Src4), !.ifindex = Some(2)] }

(***************************************************************************)
(* Wire messages (netlink_packet_route::route::RouteMessage)               *)
(***************************************************************************)
Attr(tag, val) == [tag |-> tag, val |-> val]

\* addr_to_ip
addr_to_ip(addr) ==
    IF IpVersion(addr) \in {4, 6} THEN Some(addr) ELSE None

\* a decoder that reads the table from the header only
ApplyAttr_NoTable(acc, attr) ==
    CASE attr.tag = "Source"      -> [acc EXCEPT !.source = addr_to_ip(attr.val)]
      [] attr.tag = "PrefSource"  -> [acc EXCEPT !.source_hint = addr_to_ip(attr.val)]
      [] attr.tag = "Destination" -> [acc EXCEPT !.destination = addr_to_ip(attr.val)]
      [] attr.tag = "Gateway"     -> [acc EXCEPT !.gateway = addr_to_ip(attr.val)]
      [] attr.tag = "Oif"         -> [acc EXCEPT !.ifindex = Some(attr.val[1])]
      [] attr.tag = "Priority"    -> [acc EXCEPT !.metric = Some(attr.val[1])]
      [] OTHER                    -> acc

ApplyAttr(acc, attr) ==
    CASE attr.tag = "Source"      -> [acc EXCEPT !.source = addr_to_ip(attr.val)]
      [] attr.tag = "PrefSource"  -> [acc EXCEPT !.source_hint = addr_to_ip(attr.val)]
      [] attr.tag = "Destination" -> [acc EXCEPT !.destination = addr_to_ip(attr.val)]
      [] attr.tag = "Gateway"     -> [acc EXCEPT !.gateway = addr_to_ip(attr.val)]
      [] attr.tag = "Oif"         -> [acc EXCEPT !.ifindex = Some(attr.val[1])]
      [] attr.tag = "Priority"    -> [acc EXCEPT !.metric = Some(attr.val[1])]
      [] attr.tag = "Table"       -> [acc EXCEPT !.table = attr.val[1]]
      [] OTHER                    -> acc

RECURSIVE FoldAttrs(_, _)
FoldAttrs(acc, attrs) ==
    IF attrs = <<>> THEN acc
    ELSE FoldAttrs(ApplyAttr(acc, Head(attrs)), Tail(attrs))

\* impl From<RouteMessage> for Route
RouteFromMessage(msg) ==
    LET acc0 == [gateway |-> None, source |-> None, source_hint |-> None,
                 destination |-> None, ifindex |-> None, metric |-> None,
                 table |-> msg.header.table]
        acc  == FoldAttrs(acc0, msg.attributes)
        dst  == IF acc.destination # None THEN acc.destination[1]
                ELSE IF msg.header.address_family = 4 THEN V4Unspecified
                ELSE V6Unspecified
    IN [destination |-> dst,
        prefix |-> msg.header.destination_prefix_length,
        source |-> acc.source,
        source_prefix |-> msg.header.source_prefix_length,
        source_hint |-> acc.source_hint,
        gateway |-> acc.gateway,
        ifindex |-> acc.ifindex,
        table |-> acc.table,
        metric |-> acc.metric]

\* RouteExt::destination_prefix
destination_prefix(msg) ==
    LET hits == { i \in 1..Len(msg.attributes) :
                     /\ msg.attributes[i].tag = "Destination"
                     /\ addr_to_ip(msg.attributes[i].val) # None }
    IN IF hits = {} THEN None
       ELSE LET i == CHOOSE k \in hits : \A j \in hits : k <= j
            IN Some(<<msg.attributes[i].val, msg.header.destination_prefix_length>>)

(***************************************************************************)
(* Handle::add: the request message, or the InvalidInput early return      *)
(***************************************************************************)
OptAttr(tag, opt) == IF opt = None THEN <<>> ELSE <<Attr(tag, opt[1])>>
OptNum(tag, opt)  == IF opt = None THEN <<>> ELSE <<Attr(tag, <<opt[1]>>)>>

Mismatch(route, opt) ==
    opt # None /\ IpVersion(opt[1]) # IpVersion(route.destination)

\* a validation that lets a source hint of the other IP version through
AddValidation_NoHint(route) ==
    IF Mismatch(route, route.gateway) THEN "gateway"
    ELSE IF Mismatch(route, route.source) THEN "source"
    ELSE "ok"

\* the validation performed while the request is built, in code order
AddValidation(route) ==
    IF Mismatch(route, route.gateway) THEN "gateway"
    ELSE IF Mismatch(route, route.source_hint) THEN "source_hint"
    ELSE IF Mismatch(route, route.source) THEN "source"
    ELSE "ok"

\* a request that leaves the source prefix length out of the header
AddRequest_NoSourceLength(route) ==
    [header |-> [address_family |-> IpVersion(route.destination),
                 destination_prefix_length |-> route.prefix,
                 source_prefix_length |-> 0,
                 table |-> IF route.table > 255 THEN RT_TABLE_MAIN
                           ELSE route.table],
     attributes |->
         (IF route.table > 255 THEN <<Attr("Table", <<route.table>>)>> ELSE <<>>)
         \o <<Attr("Destination", route.destination)>>
         \o OptNum("Oif", route.ifindex)
         \o OptNum("Priority", route.metric)
         \o OptAttr("Gateway", route.gateway)
         \o OptAttr("PrefSource", route.source_hint)
         \o OptAttr("Source", route.source)]

\* route_handle.add().v4()/v6().table_id(..).destination_prefix(..)...
AddRequest(route) ==
    [header |-> [address_family |-> IpVersion(route.destination),
                 destination_prefix_length |-> route.prefix,
                 source_prefix_length |->
                     IF route.source = None THEN 0 ELSE route.source_prefix,
                 table |-> IF route.table > 255 THEN RT_TABLE_MAIN
                           ELSE route.table],
     attributes |->
         (IF route.table > 255 THEN <<Attr("Table", <<route.table>>)>> ELSE <<>>)
         \o <<Attr("Destination", route.destination)>>
         \o OptNum("Oif", route.ifindex)
         \o OptNum("Priority", route.metric)
         \o OptAttr("Gateway", route.gateway)
         \o OptAttr("PrefSource", route.source_hint)
         \o OptAttr("Source", route.source)]

(***************************************************************************)
(* The kernel routing table, as seen through rtnetlink                     *)
(***************************************************************************)
\* A dump omits the Destination attribute of a default route (prefix 0).
KernelStored(msg) ==
    IF msg.header.destination_prefix_length = 0
    THEN [msg EXCEPT !.attributes =
            SelectSeq(msg.attributes, LAMBDA a : a.tag # "Destination")]
    ELSE msg

\* the key under which the kernel holds a route
KernelKey(msg) ==
    LET r == RouteFromMessage(msg)
    IN <<msg.header.address_family, r.table, r.destination, r.prefix, r.metric>>

\* route().get(V4 | V6).execute(): the entries of one family, in table order
Dump(tbl, family) ==
    SelectSeq(tbl, LAMBDA m : m.header.address_family = family)

\* a kernel that settles for any entry under the key of the message
KernelFind_SameKey(tbl, msg) ==
    LET hits == { i \in 1..Len(tbl) : KernelKey(tbl[i]) = KernelKey(msg) }
    IN IF hits = {} THEN 0 ELSE CHOOSE i \in hits : \A j \in hits : i <= j

\* route().del(msg).execute(): index of the entry the replayed message names
KernelFind(tbl, msg) ==
    LET hits == { i \in 1..Len(tbl) : tbl[i] = msg }
    IN IF hits = {} THEN 0 ELSE CHOOSE i \in hits : \A j \in hits : i <= j

Req(kind, family, body) == [kind |-> kind, family |-> family, body |-> body]

Call(op, arg, res, sent, out) ==
    [op |-> op, arg |-> arg, res |-> res, sent |-> sent, out |-> out]

(***************************************************************************)
(* Handle::delete                                                          *)
(***************************************************************************)
\* a comparison that leaves the metric out
SameTriple_NoMetric(other, route) ==
    /\ other.destination = route.destination
    /\ other.prefix = route.prefix

\* a comparison of the destination address alone
SameTriple_DestinationOnly(other, route) ==
    other.destination = route.destination

SameTriple(other, route) ==
    /\ other.destination = route.destination
    /\ other.prefix = route.prefix
    /\ other.metric = route.metric

\* a scan that keeps the last matching entry instead of returning at the first
FirstMatch_Last(listing, route) ==
    LET hits == { i \in 1..Len(listing) :
                    /\ RouteFromMessage(listing[i]).destination = route.destination
                    /\ RouteFromMessage(listing[i]).prefix = route.prefix
                    /\ RouteFromMessage(listing[i]).metric = route.metric }
    IN IF hits = {} THEN 0 ELSE CHOOSE i \in hits : \A j \in hits : j <= i

\* the while-let scan: index in the listing of the entry deleted, 0 if none
FirstMatch(listing, route) ==
    LET hits == { i \in 1..Len(listing) :
                    SameTriple(RouteFromMessage(listing[i]), route) }
    IN IF hits = {} THEN 0 ELSE CHOOSE i \in hits : \A j \in hits : i <= j

Delete(route) ==
    LET family  == IpVersion(route.destination)
        listing == Dump(krt, family)
        get     == Req("GetRoute", family, <<>>)
        hit     == FirstMatch(listing, route)
    IN IF hit = 0
       THEN /\ last' = Call("delete", route, "NotFound", <<get>>, <<>>)
            /\ krt' = krt
       ELSE LET msg == listing[hit]
                del == Req("DelRoute", family, <<msg>>)
                k   == KernelFind(krt, msg)
            IN IF k = 0
               THEN /\ last' = Call("delete", route, "Other", <<get, del>>, <<>>)
                    /\ krt' = krt
               ELSE /\ last' = Call("delete", route, "Ok", <<get, del>>, <<>>)
                    /\ krt' = RemoveAt(krt, k)

(***************************************************************************)
(* Handle::delete called concurrently: the call gives way at its awaits,   *)
(* between the listing and the delete request.                             *)
(***************************************************************************)
\* the tasks that call delete on one Handle
Callers == {"c1", "c2"}

\* pc: "idle" before the call, "scanned" between the listing and the delete
\* request, "done" after the return; msg is the entry the scan stopped at.
NoCall == [pc |-> "idle", route |-> <<>>, msg |-> <<>>, res |-> "none"]

NoCalls == [c \in Callers |-> NoCall]

\* the listing and the while-let scan, up to the await of del(msg).execute()
DeleteScan(c, route) ==
    /\ inflight[c].pc = "idle"
    /\ LET listing == Dump(krt, IpVersion(route.destination))
           hit == FirstMatch(listing, route)
       IN inflight' = [inflight EXCEPT ![c] =
              IF hit = 0
              THEN [pc |-> "done", route |-> <<route>>, msg |-> <<>>,
                    res |-> "NotFound"]
              ELSE [pc |-> "scanned", route |-> <<route>>,
                    msg |-> <<listing[hit]>>, res |-> "none"]]
    /\ UNCHANGED <<krt, last>>

\* route_handle.del(msg).execute() and the return
DeleteSend(c) ==
    /\ inflight[c].pc = "scanned"
    /\ LET k == KernelFind(krt, inflight[c].msg[1])
       IN IF k = 0
          THEN /\ inflight' = [inflight EXCEPT ![c].pc = "done", ![c].res = "Other"]
               /\ krt' = krt
          ELSE /\ inflight' = [inflight EXCEPT ![c].pc = "done", ![c].res = "Ok"]
               /\ krt' = RemoveAt(krt, k)
    /\ UNCHANGED last

(***************************************************************************)
(* Handle::add                                                             *)
(***************************************************************************)
\* the kernel refuses a destination with bits set beyond its prefix
KernelRejects(msg) ==
    /\ msg.header.destination_prefix_length = 0
    /\ \E i \in 1..Len(msg.attributes) :
          /\ msg.attributes[i].tag = "Destination"
          /\ msg.attributes[i].val[2] # 0

\* route().add()...execute(): NLM_F_CREATE | NLM_F_EXCL, no replace()
KernelAddFails(tbl, msg) ==
    \/ KernelRejects(msg)
    \/ \E i \in 1..Len(tbl) : KernelKey(tbl[i]) = KernelKey(KernelStored(msg))

Add(route) ==
    IF AddValidation(route) # "ok"
    THEN /\ last' = Call("add", route, "InvalidInput", <<>>, <<>>)
         /\ krt' = krt
    ELSE LET msg == AddRequest(route)
             new == Req("NewRoute", IpVersion(route.destination), <<msg>>)
         IN IF KernelAddFails(krt, msg)
            THEN /\ last' = Call("add", route, "Other", <<new>>, <<>>)
                 /\ krt' = krt
            ELSE /\ Len(krt) < MaxRoutes
                 /\ last' = Call("add", route, "Ok", <<new>>, <<>>)
                 /\ \E pos \in 1..(Len(krt) + 1) :
                        krt' = InsertAt(krt, pos, KernelStored(msg))

(***************************************************************************)
(* Handle::list and Handle::default_route                                  *)
(***************************************************************************)
RECURSIVE MapDecode(_)
MapDecode(msgs) ==
    IF msgs = <<>> THEN <<>>
    ELSE <<RouteFromMessage(Head(msgs))>> \o MapDecode(Tail(msgs))

\* a listing that hands over the IPv6 routes first
List_V6First(tbl) == MapDecode(Dump(tbl, 6)) \o MapDecode(Dump(tbl, 4))

List(tbl) == MapDecode(Dump(tbl, 4)) \o MapDecode(Dump(tbl, 6))

\* A dump may end in an error instead of its last messages: <<family, k>>
\* is an error of that family's dump after k messages, <<>> no error.
MaxRead == 1

Faults == {<<>>} \cup { <<family, k>> : family \in {4, 6}, k \in 0..MaxRead }

\* what try_next() hands over for one family: the messages, then the end
\* of the dump or the error
Listing(tbl, family, fault) ==
    LET all == Dump(tbl, family)
    IN IF fault # <<>> /\ fault[1] = family
       THEN [msgs |-> SubSeq(all, 1, IF fault[2] < Len(all) THEN fault[2]
                                     ELSE Len(all)),
             err |-> TRUE]
       ELSE [msgs |-> all, err |-> FALSE]

GetRoute(family) == Req("GetRoute", family, <<>>)

ListRun(tbl, fault) ==
    IF Listing(tbl, 4, fault).err
    THEN [res |-> "Other", sent |-> <<GetRoute(4)>>, out |-> <<>>]
    ELSE IF Listing(tbl, 6, fault).err
    THEN [res |-> "Other", sent |-> <<GetRoute(4), GetRoute(6)>>, out |-> <<>>]
    ELSE [res |-> "Ok", sent |-> <<GetRoute(4), GetRoute(6)>>, out |-> List(tbl)]

ListCall(fault) ==
    /\ LET run == ListRun(krt, fault)
       IN last' = Call("list", fault, run.res, run.sent, run.out)
    /\ krt' = krt

\* a test that looks at the wrong attribute
IsDefault_Gateway(msg) ==
    \A i \in 1..Len(msg.attributes) : msg.attributes[i].tag # "Gateway"

\* route.destination_prefix().is_none()
IsDefault(msg) == destination_prefix(msg) = None

\* position of the first message the scan returns on, 0 when there is none
FirstDefault(msgs) ==
    LET hits == { i \in 1..Len(msgs) : IsDefault(msgs[i]) }
    IN IF hits = {} THEN 0 ELSE CHOOSE i \in hits : \A j \in hits : i <= j

DefaultRouteRun(tbl, fault) ==
    LET v4 == Listing(tbl, 4, fault)
        v6 == Listing(tbl, 6, fault)
        i4 == FirstDefault(v4.msgs)
        i6 == FirstDefault(v6.msgs)
    IN IF i4 # 0
       THEN [res |-> "Ok", sent |-> <<GetRoute(4)>>,
             out |-> Some(RouteFromMessage(v4.msgs[i4]))]
       ELSE IF v4.err
       THEN [res |-> "Other", sent |-> <<GetRoute(4)>>, out |-> None]
       ELSE IF i6 # 0
       THEN [res |-> "Ok", sent |-> <<GetRoute(4), GetRoute(6)>>,
             out |-> Some(RouteFromMessage(v6.msgs[i6]))]
       ELSE IF v6.err
       THEN [res |-> "Other", sent |-> <<GetRoute(4), GetRoute(6)>>, out |-> None]
       ELSE [res |-> "Ok", sent |-> <<GetRoute(4), GetRoute(6)>>, out |-> None]

DefaultRouteCall(fault) ==
    /\ LET run == DefaultRouteRun(krt, fault)
       IN last' = Call("default_route", fault, run.res, run.sent, run.out)
    /\ krt' = krt

(***************************************************************************)
(* Initial kernel tables: what other tools may have installed              *)
(***************************************************************************)
StoredOf(route) == KernelStored(AddRequest(route))

InitTables ==
    { <<>>,
      \* two routes that differ only in gateway (ip route append)
      << StoredOf(MkRoute(Net4, 24, Some(Gw4a), RT_TABLE_MAIN, None)),
         StoredOf(MkRoute(Net4, 24, Some(Gw4b), RT_TABLE_MAIN, None)) >>,
      \* the same prefix in another table, listed first
      << StoredOf(MkRoute(Net4, 24, Some(Gw4a), 300, None)) >>,
      << StoredOf(MkRoute(V4Unspecified, 0, Some(Gw4a), RT_TABLE_MAIN, None)),
         StoredOf(MkRoute(Net6, 64, Some(Gw6), RT_TABLE_MAIN, None)) >> }

(***************************************************************************)
(* Policy rules (crate::Rule) and their requests                           *)
(***************************************************************************)
Dns4 == <<4, 8>>
Dns6 == <<6, 8>>

MaxBatch == 2
MaxRules == 2

\* Rule::default()
DefaultRule ==
    [src |-> None, dst |-> None, input_interface |-> None,
     output_interface |-> None, table_id |-> None, priority |-> None,
     fw_mark_mask |-> None, suppress_prefixlength |-> None,
     protocol |-> None, v6 |-> FALSE]

\* The Rule values callers pass to add_rules / delete_rules.
RuleInputs ==
    { [DefaultRule EXCEPT !.dst = Some(<<Dns4, 32>>), !.table_id = Some(2001)],
      [DefaultRule EXCEPT !.dst = Some(<<Dns4, 33>>), !.table_id = Some(2001)],
      [DefaultRule EXCEPT !.dst = Some(<<Dns4, 32>>), !.table_id = Some(100),
                          !.protocol = Some(1),
                          !.input_interface = Some("eth0"),
                          !.priority = Some(10),
                          !.fw_mark_mask = Some(<<1, 255>>),
                          !.suppress_prefixlength = Some(0)],
      [DefaultRule EXCEPT !.v6 = TRUE, !.dst = Some(<<Dns6, 128>>),
                          !.src = Some(<<Src4, 32>>), !.table_id = Some(2001)] }

RECURSIVE SeqsUpTo(_, _)
SeqsUpTo(S, n) ==
    IF n = 0 THEN { <<>> }
    ELSE LET shorter == SeqsUpTo(S, n - 1)
         IN shorter \cup { Append(q, x) : q \in shorter, x \in S }

RuleBatches == SeqsUpTo(RuleInputs, MaxBatch)

RuleFamily(rule) == IF rule.v6 THEN 6 ELSE 4

\* the Source / Destination pushed by source_prefix / destination_prefix of
\* the typed request: only an address of the request's own family
TypedPrefix(tag, opt, family) ==
    IF opt # None /\ IpVersion(opt[1][1]) = family
    THEN <<Attr(tag, opt[1][1])>> ELSE <<>>

TypedLen(opt, family) ==
    IF opt # None /\ IpVersion(opt[1][1]) = family THEN opt[1][2] ELSE 0

\* the request add_rules builds for one rule
RuleAddRequest(rule) ==
    LET family == RuleFamily(rule)
    IN [header |-> [family |-> family,
                    action |-> "ToTable",
                    table |-> IF rule.table_id # None /\ rule.table_id[1] <= 255
                              THEN rule.table_id[1] ELSE RT_TABLE_MAIN,
                    src_len |-> TypedLen(rule.src, family),
                    dst_len |-> TypedLen(rule.dst, family)],
        replace |-> TRUE,
        attributes |->
            OptAttr("Iifname", rule.input_interface)
            \o OptAttr("Oifname", rule.output_interface)
            \o (IF rule.table_id # None /\ rule.table_id[1] > 255
                THEN <<Attr("Table", <<rule.table_id[1]>>)>> ELSE <<>>)
            \o OptNum("Priority", rule.priority)
            \o (IF rule.fw_mark_mask = None THEN <<>>
                ELSE << Attr("FwMark", <<rule.fw_mark_mask[1][1]>>),
                        Attr("FwMask", <<rule.fw_mark_mask[1][2]>>) >>)
            \o OptNum("SuppressPrefixLen", rule.suppress_prefixlength)
            \o OptNum("IpProtocol", rule.protocol)
            \o TypedPrefix("Source", rule.src, family)
            \o TypedPrefix("Destination", rule.dst, family)]

\* the request delete_rules builds for one rule
RuleDelRequest(rule) ==
    [header |-> [family |-> RuleFamily(rule),
                 action |-> "ToTable",
                 table |-> 0,
                 src_len |-> IF rule.src = None THEN 0 ELSE rule.src[1][2],
                 dst_len |-> IF rule.dst = None THEN 0 ELSE rule.dst[1][2]],
     replace |-> FALSE,
     attributes |->
         (IF rule.src = None THEN <<>> ELSE <<Attr("Source", rule.src[1][1])>>)
         \o (IF rule.dst = None THEN <<>>
             ELSE <<Attr("Destination", rule.dst[1][1])>>)
         \o OptAttr("Iifname", rule.input_interface)
         \o OptAttr("Oifname", rule.output_interface)
         \o OptNum("Table", rule.table_id)
         \o OptNum("Priority", rule.priority)
         \o (IF rule.fw_mark_mask = None THEN <<>>
             ELSE << Attr("FwMark", <<rule.fw_mark_mask[1][1]>>),
                     Attr("FwMask", <<rule.fw_mark_mask[1][2]>>) >>)
         \o OptNum("SuppressPrefixLen", rule.suppress_prefixlength)]

(***************************************************************************)
(* The kernel rule table, as seen through rtnetlink                        *)
(***************************************************************************)
\* value of the last attribute with this tag, as an Option
AttrOpt(attrs, tag) ==
    LET hits == { i \in 1..Len(attrs) : attrs[i].tag = tag }
    IN IF hits = {} THEN None
       ELSE Some(attrs[CHOOSE i \in hits : \A j \in hits : j <= i].val)

AddrBits(family) == IF family = 4 THEN 32 ELSE 128

\* a prefix length needs an address of the request's family that can hold it
BadPrefix(req, len, tag) ==
    /\ len > 0
    /\ \/ AttrOpt(req.attributes, tag) = None
       \/ len > AddrBits(req.header.family)
       \/ IpVersion(AttrOpt(req.attributes, tag)[1]) # req.header.family

\* the kernel answers EINVAL
KernelRuleInvalid(req) ==
    \/ BadPrefix(req, req.header.src_len, "Source")
    \/ BadPrefix(req, req.header.dst_len, "Destination")

\* the selectors a rule request names; an unnamed selector is None (table 0)
KernelRule(req) ==
    LET a == req.attributes
    IN [family |-> req.header.family,
        table |-> IF AttrOpt(a, "Table") # None THEN AttrOpt(a, "Table")[1][1]
                  ELSE req.header.table,
        src_len |-> req.header.src_len,
        dst_len |-> req.header.dst_len,
        src |-> IF req.header.src_len > 0 THEN AttrOpt(a, "Source") ELSE None,
        dst |-> IF req.header.dst_len > 0 THEN AttrOpt(a, "Destination") ELSE None,
        iif |-> AttrOpt(a, "Iifname"),
        oif |-> AttrOpt(a, "Oifname"),
        priority |-> AttrOpt(a, "Priority"),
        fwmark |-> AttrOpt(a, "FwMark"),
        fwmask |-> AttrOpt(a, "FwMask"),
        suppress |-> AttrOpt(a, "SuppressPrefixLen"),
        ip_proto |-> AttrOpt(a, "IpProtocol")]

OptFields == {"src", "dst", "iif", "oif", "priority", "fwmark", "fwmask",
              "suppress", "ip_proto"}

\* a delete request selects a stored rule that agrees on every selector it names
KernelRuleMatches(stored, want) ==
    /\ stored.family = want.family
    /\ want.table = 0 \/ stored.table = want.table
    /\ want.src_len = 0 \/ stored.src_len = want.src_len
    /\ want.dst_len = 0 \/ stored.dst_len = want.dst_len
    /\ \A f \in OptFields : want[f] = None \/ stored[f] = want[f]

\* rule().del(message).execute(): index of the rule removed, 0 for ENOENT
KernelRuleFind(tbl, req) ==
    LET hits == { i \in 1..Len(tbl) : KernelRuleMatches(tbl[i], KernelRule(req)) }
    IN IF hits = {} THEN 0 ELSE CHOOSE i \in hits : \A j \in hits : i <= j

(***************************************************************************)
(* Handle::add_rules                                                       *)
(***************************************************************************)
Run(tbl, sent, res, out) == [tbl |-> tbl, sent |-> sent, res |-> res, out |-> out]

\* a loop that records the rejection and goes on with the remaining rules
RECURSIVE AddRulesRun_Continue(_, _, _)
AddRulesRun_Continue(tbl, rules, sent) ==
    IF rules = <<>> THEN Run(tbl, sent, "Ok", <<>>)
    ELSE LET req == RuleAddRequest(Head(rules))
             sent2 == Append(sent, Req("NewRule", req.header.family, <<req>>))
         IN IF KernelRuleInvalid(req)
            THEN [AddRulesRun_Continue(tbl, Tail(rules), sent2)
                     EXCEPT !.res = "Other"]
            ELSE AddRulesRun_Continue(Append(tbl, KernelRule(req)),
                                      Tail(rules), sent2)

\* the for loop: `?` returns at the first rejected request
RECURSIVE AddRulesRun(_, _, _)
AddRulesRun(tbl, rules, sent) ==
    IF rules = <<>> THEN Run(tbl, sent, "Ok", <<>>)
    ELSE LET req == RuleAddRequest(Head(rules))
             sent2 == Append(sent, Req("NewRule", req.header.family, <<req>>))
         IN IF KernelRuleInvalid(req)
            THEN Run(tbl, sent2, "Other", <<>>)
            ELSE AddRulesRun(Append(tbl, KernelRule(req)), Tail(rules), sent2)

AddRules(rules) ==
    LET run == AddRulesRun(krules, rules, <<>>)
    IN /\ Len(run.tbl) <= MaxRules
       /\ krules' = run.tbl
       /\ last' = Call("add_rules", rules, run.res, run.sent, <<>>)

(***************************************************************************)
(* Handle::delete_rules                                                    *)
(***************************************************************************)
\* a loop that returns at the first failed deletion
RECURSIVE DeleteRulesRun_FailFast(_, _, _, _)
DeleteRulesRun_FailFast(tbl, rules, sent, failed) ==
    IF rules = <<>> THEN Run(tbl, sent, "Ok", failed)
    ELSE LET req == RuleDelRequest(Head(rules))
             sent2 == Append(sent, Req("DelRule", req.header.family, <<req>>))
             k == KernelRuleFind(tbl, req)
         IN IF KernelRuleInvalid(req)
            THEN Run(tbl, sent2, "Other", <<<<Head(rules), "EINVAL">>>>)
            ELSE IF k = 0
            THEN Run(tbl, sent2, "Other", <<<<Head(rules), "ENOENT">>>>)
            ELSE DeleteRulesRun_FailFast(RemoveAt(tbl, k), Tail(rules),
                                         sent2, failed)

\* the for loop: a failure is recorded and the loop goes on
RECURSIVE DeleteRulesRun(_, _, _, _)
DeleteRulesRun(tbl, rules, sent, failed) ==
    IF rules = <<>>
    THEN Run(tbl, sent, IF failed # <<>> THEN "Other" ELSE "Ok", failed)
    ELSE LET req == RuleDelRequest(Head(rules))
             sent2 == Append(sent, Req("DelRule", req.header.family, <<req>>))
             k == KernelRuleFind(tbl, req)
         IN IF KernelRuleInvalid(req)
            THEN DeleteRulesRun(tbl, Tail(rules), sent2,
                                Append(failed, <<Head(rules), "EINVAL">>))
            ELSE IF k = 0
            THEN DeleteRulesRun(tbl, Tail(rules), sent2,
                                Append(failed, <<Head(rules), "ENOENT">>))
            ELSE DeleteRulesRun(RemoveAt(tbl, k), Tail(rules), sent2, failed)

DeleteRules(rules) ==
    LET run == DeleteRulesRun(krules, rules, <<>>, <<>>)
    IN /\ krules' = run.tbl
       /\ last' = Call("delete_rules", rules, run.res, run.sent, run.out)

(***************************************************************************)
(* Handle::list_rules                                                      *)
(***************************************************************************)
StoredAttr(tag, opt) == IF opt = None THEN <<>> ELSE <<Attr(tag, opt[1])>>

\* The message of a rule dump: the kernel reports the table in a Table
\* attribute whatever its size, and every selector the rule has.
KernelRuleDump(stored) ==
    [header |-> [family |-> stored.family,
                 action |-> "ToTable",
                 table |-> IF stored.table > 255 THEN 252 ELSE stored.table,
                 src_len |-> stored.src_len,
                 dst_len |-> stored.dst_len],
     attributes |->
         <<Attr("Table", <<stored.table>>)>>
         \o StoredAttr("Source", stored.src)
         \o StoredAttr("Destination", stored.dst)
         \o StoredAttr("Iifname", stored.iif)
         \o StoredAttr("Oifname", stored.oif)
         \o StoredAttr("Priority", stored.priority)
         \o StoredAttr("FwMark", stored.fwmark)
         \o StoredAttr("FwMask", stored.fwmask)
         \o StoredAttr("SuppressPrefixLen", stored.suppress)
         \o StoredAttr("IpProtocol", stored.ip_proto)]

RuleDump(tbl, family) ==
    LET of == SelectSeq(tbl, LAMBDA r : r.family = family)
    IN [i \in 1..Len(of) |-> KernelRuleDump(of[i])]

GetRule(family) == Req("GetRule", family, <<>>)

ListRulesRun(tbl, fault) ==
    IF fault # <<>> /\ fault[1] = 4
    THEN [res |-> "Other", sent |-> <<GetRule(4)>>, out |-> <<>>]
    ELSE IF fault # <<>>
    THEN [res |-> "Other", sent |-> <<GetRule(4), GetRule(6)>>, out |-> <<>>]
    ELSE [res |-> "Ok", sent |-> <<GetRule(4), GetRule(6)>>,
          out |-> RuleDump(tbl, 4) \o RuleDump(tbl, 6)]

ListRulesCall(fault) ==
    /\ LET run == ListRulesRun(krules, fault)
       IN last' = Call("list_rules", fault, run.res, run.sent, run.out)
    /\ krules' = krules

(***************************************************************************)
(* Route events: the inbound feed, Handle::listen, the broadcast channel   *)
(* (tokio::sync::broadcast) and the streams of route_listen_stream()       *)
(***************************************************************************)
\* broadcast::channel::<RouteChange>(16)
Capacity == 16

MaxEmit == 18
MaxFeed == 2
\* the streams obtained from route_listen_stream()
Subscribers == {"s1"}

\* The n-th route notification of the kernel (n is its emission number).
NotifiedRoutes ==
    << StoredOf(MkRoute(Net4, 24, Some(Gw4a), RT_TABLE_MAIN, None)),
       StoredOf(MkRoute(V4Unspecified, 0, Some(Gw4a), RT_TABLE_MAIN, None)),
       StoredOf(MkRoute(Net6, 64, Some(Gw6), 300, Some(100))) >>

RouteNotification(n) ==
    [type |-> IF n % 2 = 1 THEN "NewRoute" ELSE "DelRoute",
     inner |-> TRUE,
     msg |-> <<NotifiedRoutes[(n % 3) + 1]>>,
     seq |-> n]

\* Inbound messages that are not route changes: another rtnetlink message,
\* and a payload that is not an InnerMessage.
OtherNotifications ==
    { [type |-> "NewLink", inner |-> TRUE, msg |-> <<>>, seq |-> 0],
      [type |-> "Done", inner |-> FALSE, msg |-> <<>>, seq |-> 0] }

\* a listener that mixes the two variants up
RouteChange_Swapped(message) ==
    [change |-> IF message.type = "NewRoute" THEN "Delete" ELSE "Add",
     route |-> RouteFromMessage(message.msg[1]),
     seq |-> message.seq]

\* RouteChange::Add(msg.into()) / RouteChange::Delete(msg.into())
RouteChange(message) ==
    [change |-> IF message.type = "NewRoute" THEN "Add" ELSE "Delete",
     route |-> RouteFromMessage(message.msg[1]),
     seq |-> message.seq]

\* live receivers of the channel: one per stream created
RxCount(sbs) == Cardinality({ s \in DOMAIN sbs : sbs[s].state \in {"open", "ended"} })

\* tx.send(ev): stored unless there is no receiver; never waits
Send(ch, sbs, ev) == IF RxCount(sbs) = 0 THEN ch ELSE Append(ch, ev)

\* every Sender is gone: the Handle's and the listener's clone
Closed == ~txHandle /\ listenTask = "gone"

\* a feed read from its newest end
FeedNext_Newest(q) == q[Len(q)]

\* messages.next()
FeedNext(q) == Head(q)

\* the match in listen(): what one inbound message publishes
Published(message) ==
    IF message.inner /\ message.type \in {"NewRoute", "DelRoute"}
    THEN <<RouteChange(message)>> ELSE <<>>

\* One iteration of the while-let loop of listen().  A task whose abort was
\* requested during a poll finishes that poll.
ListenStep ==
    /\ listenTask \in {"running", "aborting"}
    /\ feed # <<>>
    /\ LET evs == Published(FeedNext(feed))
       IN chan' = IF evs = <<>> THEN chan ELSE Send(chan, subs, evs[1])
    /\ feed' = Tail(feed)
    /\ UNCHANGED <<emitted, txHandle, listenTask, connTask, subs>>

\* The connection task hands a kernel message to the inbound feed; limit
\* caps the number of route notifications of a run, room the messages
\* waiting in the feed.
KernelEmitUpTo(limit, room) ==
    /\ connTask \in {"running", "aborting"}
    /\ listenTask # "gone"
    /\ Len(feed) < room
    /\ \/ /\ emitted < limit
          /\ emitted' = emitted + 1
          /\ feed' = Append(feed, RouteNotification(emitted + 1))
       \/ /\ \E m \in OtherNotifications : feed' = Append(feed, m)
          /\ emitted' = emitted
    /\ UNCHANGED <<chan, txHandle, listenTask, connTask, subs>>

KernelEmit == KernelEmitUpTo(MaxEmit, MaxFeed)

\* a drop that leaves the tasks running
Aborted_Noop(task) == task

\* JoinHandle::abort()
Aborted(task) == IF task = "running" THEN "aborting" ELSE task

\* a teardown that forgets the listener
Drop_ConnOnly ==
    /\ txHandle
    /\ txHandle' = FALSE
    /\ connTask' = Aborted(connTask)
    /\ UNCHANGED <<feed, emitted, chan, listenTask, subs>>

\* impl Drop for Handle, then the drop of its fields (tx among them)
Drop ==
    /\ txHandle
    /\ txHandle' = FALSE
    /\ connTask' = Aborted(connTask)
    /\ listenTask' = Aborted(listenTask)
    /\ UNCHANGED <<feed, emitted, chan, subs>>

\* The runtime drops an aborted task, and with it what the task owns.
ListenCancelled ==
    /\ listenTask = "aborting"
    /\ listenTask' = "gone"
    /\ feed' = <<>>
    /\ UNCHANGED <<emitted, chan, txHandle, connTask, subs>>

ConnCancelled ==
    /\ connTask = "aborting"
    /\ connTask' = "gone"
    /\ UNCHANGED <<feed, emitted, chan, txHandle, listenTask, subs>>

\* a receiver that starts at the oldest event the channel still holds
StartCursor_Oldest(ch) == IF Len(ch) > Capacity THEN Len(ch) - Capacity ELSE 0

\* the cursor of a new receiver: the tail of the channel
StartCursor(ch) == Len(ch)

\* Handle::route_listen_stream: self.tx.subscribe().  start records how many
\* events had been stored when the call was made, lagged whether the stream
\* has seen RecvError::Lagged.
Subscribe(s) ==
    /\ txHandle
    /\ subs[s].state = "none"
    /\ subs' = [subs EXCEPT ![s] = [state |-> "open", next |-> StartCursor(chan),
                                    got |-> <<>>, start |-> Len(chan),
                                    lagged |-> FALSE]]
    /\ UNCHANGED <<feed, emitted, chan, txHandle, listenTask, connTask>>

\* rx.recv(): next counts the events the receiver has passed
RecvOutcome(ch, next, closed) ==
    IF Len(ch) - next > Capacity THEN "Lagged"
    ELSE IF Len(ch) - next > 0 THEN "Ok"
    ELSE IF closed THEN "Closed"
    ELSE "Pending"

\* a receiver that jumps to the newest event after lagging
LagResume_Newest(ch) == Len(ch) - 1

\* the cursor after Lagged: the oldest event the channel still holds
LagResume(ch) == Len(ch) - Capacity

\* a stream that gives up when it has lagged
StreamOn_BreakOnLag(outcome) ==
    CASE outcome = "Ok"     -> "yield"
      [] outcome = "Closed" -> "break"
      [] outcome = "Lagged" -> "break"
      [] OTHER              -> "wait"

\* the match on rx.recv() in the stream! loop
StreamOn(outcome) ==
    CASE outcome = "Ok"     -> "yield"
      [] outcome = "Closed" -> "break"
      [] outcome = "Lagged" -> "continue"
      [] OTHER              -> "wait"

Recv(s, outcome) ==
    /\ subs[s].state = "open"
    /\ RecvOutcome(chan, subs[s].next, Closed) = outcome
    /\ LET cursor == IF outcome = "Lagged" THEN LagResume(chan)
                     ELSE IF outcome = "Ok" THEN subs[s].next + 1
                     ELSE subs[s].next
           step == StreamOn(outcome)
       IN /\ step # "wait"
          /\ subs' = [subs EXCEPT ![s] =
                [state |-> IF step = "break" THEN "ended" ELSE "open",
                 next |-> cursor,
                 got |-> IF step = "yield"
                         THEN Append(subs[s].got, chan[subs[s].next + 1])
                         ELSE subs[s].got,
                 start |-> subs[s].start,
                 lagged |-> subs[s].lagged \/ outcome = "Lagged"]]
    /\ UNCHANGED <<feed, emitted, chan, txHandle, listenTask, connTask>>

RecvOk(s) == Recv(s, "Ok")
RecvLagged(s) == Recv(s, "Lagged")
RecvClosed(s) == Recv(s, "Closed")

(***************************************************************************)
(* Specifications                                                          *)
(***************************************************************************)
NoStream == [state |-> "none", next |-> 0, got |-> <<>>, start |-> 0,
             lagged |-> FALSE]

NoStreams == [s \in Subscribers |-> NoStream]

InitCall == Call("none", <<>>, "none", <<>>, <<>>)

Init ==
    /\ krt \in InitTables
    /\ krules = <<>>
    /\ last = InitCall
    /\ feed = <<>>
    /\ emitted = 0
    /\ chan = <<>>
    /\ txHandle = TRUE
    /\ listenTask = "running"
    /\ connTask = "running"
    /\ subs = NoStreams
    /\ inflight = NoCalls

Next ==
    \/ \E route \in RouteInputs : Add(route) /\ UNCHANGED <<ruleVars, eventVars, callVars>>
    \/ \E route \in RouteInputs : Delete(route) /\ UNCHANGED <<ruleVars, eventVars, callVars>>
    \/ \E fault \in Faults : ListCall(fault) /\ UNCHANGED <<ruleVars, eventVars, callVars>>
    \/ \E fault \in Faults : DefaultRouteCall(fault) /\ UNCHANGED <<ruleVars, eventVars, callVars>>

Spec == Init /\ [][Next]_vars

NextRules ==
    \/ \E rules \in RuleBatches : AddRules(rules) /\ UNCHANGED <<routeVars, eventVars, callVars>>
    \/ \E rules \in RuleBatches : DeleteRules(rules) /\ UNCHANGED <<routeVars, eventVars, callVars>>
    \/ \E fault \in Faults : ListRulesCall(fault) /\ UNCHANGED <<routeVars, eventVars, callVars>>

InitRules ==
    /\ krt = <<>>
    /\ krules = <<>>
    /\ last = InitCall
    /\ feed = <<>>
    /\ emitted = 0
    /\ chan = <<>>
    /\ txHandle = TRUE
    /\ listenTask = "running"
    /\ connTask = "running"
    /\ subs = NoStreams
    /\ inflight = NoCalls

SpecRules == InitRules /\ [][NextRules]_vars

NextEvents ==
    \/ KernelEmit /\ UNCHANGED <<krt, krules, last, inflight>>
    \/ ListenStep /\ UNCHANGED <<krt, krules, last, inflight>>
    \/ Drop /\ UNCHANGED <<krt, krules, last, inflight>>
    \/ ListenCancelled /\ UNCHANGED <<krt, krules, last, inflight>>
    \/ ConnCancelled /\ UNCHANGED <<krt, krules, last, inflight>>
    \/ \E s \in Subscribers : Subscribe(s) /\ UNCHANGED <<krt, krules, last, inflight>>
    \/ \E s \in Subscribers : RecvOk(s) /\ UNCHANGED <<krt, krules, last, inflight>>
    \/ \E s \in Subscribers : RecvLagged(s) /\ UNCHANGED <<krt, krules, last, inflight>>
    \/ \E s \in Subscribers : RecvClosed(s) /\ UNCHANGED <<krt, krules, last, inflight>>

InitEvents ==
    /\ krt = <<>>
    /\ krules = <<>>
    /\ last = InitCall
    /\ feed = <<>>
    /\ emitted = 0
    /\ chan = <<>>
    /\ txHandle = TRUE
    /\ listenTask = "running"
    /\ connTask = "running"
    /\ subs = NoStreams
    /\ inflight = NoCalls

SpecEvents == InitEvents /\ [][NextEvents]_vars

\* The runtime gets to drop an aborted task, and a consumer keeps polling
\* its stream.
FairSpecEvents ==
    /\ SpecEvents
    /\ WF_vars(ListenCancelled /\ UNCHANGED <<krt, krules, last, inflight>>)
    /\ \A s \in Subscribers :
          WF_vars((RecvOk(s) \/ RecvLagged(s) \/ RecvClosed(s))
                  /\ UNCHANGED <<krt, krules, last, inflight>>)

\* Two streams of one running Handle: each route_listen_stream() call owns
\* a receiver of the same channel.  The first stream is created before any
\* event is published (until a stream exists every event is discarded), the
\* second at any later time.
TwoStreams == {"s1", "s2"}

MaxPending == 1

FirstStream == [NoStream EXCEPT !.state = "open"]

InitStreams ==
    /\ krt = <<>>
    /\ krules = <<>>
    /\ last = InitCall
    /\ feed = <<>>
    /\ emitted = 0
    /\ chan = <<>>
    /\ txHandle = TRUE
    /\ listenTask = "running"
    /\ connTask = "running"
    /\ subs = [s \in TwoStreams |-> IF s = "s1" THEN FirstStream ELSE NoStream]
    /\ inflight = NoCalls

NextStreams ==
    \/ KernelEmitUpTo(MaxEmit, MaxPending) /\ UNCHANGED <<krt, krules, last, inflight>>
    \/ ListenStep /\ UNCHANGED <<krt, krules, last, inflight>>
    \/ \E s \in TwoStreams : Subscribe(s) /\ UNCHANGED <<krt, krules, last, inflight>>
    \/ \E s \in TwoStreams : RecvOk(s) /\ UNCHANGED <<krt, krules, last, inflight>>
    \/ \E s \in TwoStreams : RecvLagged(s) /\ UNCHANGED <<krt, krules, last, inflight>>

SpecStreams == InitStreams /\ [][NextStreams]_vars

\* The calls of a Handle next to its event relay: a few calls of every
\* kind, a short run of kernel notifications, one stream.
MaxNotify == 3

RelayRoutes ==
    { MkRoute(Net4, 24, Some(Gw4a), RT_TABLE_MAIN, None),
      MkRoute(V4Unspecified, 0, Some(Gw4a), RT_TABLE_MAIN, None) }

RelayRules ==
    { << [DefaultRule EXCEPT !.dst = Some(<<Dns4, 32>>), !.table_id = Some(2001)] >> }

NextRelay ==
    \/ \E route \in RelayRoutes : Add(route) /\ UNCHANGED <<ruleVars, eventVars, callVars>>
    \/ \E route \in RelayRoutes : Delete(route) /\ UNCHANGED <<ruleVars, eventVars, callVars>>
    \/ ListCall(<<>>) /\ UNCHANGED <<ruleVars, eventVars, callVars>>
    \/ DefaultRouteCall(<<>>) /\ UNCHANGED <<ruleVars, eventVars, callVars>>
    \/ \E rules \in RelayRules : AddRules(rules) /\ UNCHANGED <<routeVars, eventVars, callVars>>
    \/ \E rules \in RelayRules : DeleteRules(rules) /\ UNCHANGED <<routeVars, eventVars, callVars>>
    \/ KernelEmitUpTo(MaxNotify, MaxFeed) /\ UNCHANGED <<krt, krules, last, inflight>>
    \/ ListenStep /\ UNCHANGED <<krt, krules, last, inflight>>
    \/ \E s \in Subscribers : Subscribe(s) /\ UNCHANGED <<krt, krules, last, inflight>>
    \/ \E s \in Subscribers : RecvOk(s) /\ UNCHANGED <<krt, krules, last, inflight>>

SpecRelay == InitEvents /\ [][NextRelay]_vars

\* The request of add and the decoder, applied to Route values that have
\* every optional field set, all addresses of one family.
FullRoute(dst, prefix, gw, src, srclen, ifindex, table, metric) ==
    [destination |-> dst, prefix |-> prefix, source |-> Some(src),
     source_prefix |-> srclen, source_hint |-> Some(src), gateway |-> Some(gw),
     ifindex |-> Some(ifindex), table |-> table, metric |-> Some(metric)]

FullRoutes ==
    { FullRoute(d[1], d[2], Gw4a, Src4, srclen, ifindex, table, metric) :
        d \in {<<Net4, 24>>, <<V4Unspecified, 0>>}, srclen \in {8, 32},
        ifindex \in {1, 2}, table \in {0, 255, 256, 300}, metric \in {0, 100} }
    \cup
    { FullRoute(Net6, 64, Gw6, Src6, srclen, ifindex, table, metric) :
        srclen \in {64, 128}, ifindex \in {1, 2},
        table \in {0, 255, 256, 300}, metric \in {0, 100} }

InitCodec ==
    /\ krt = <<>>
    /\ krules = <<>>
    /\ \E route \in FullRoutes : last = Call("route", route, "none", <<>>, <<>>)
    /\ feed = <<>>
    /\ emitted = 0
    /\ chan = <<>>
    /\ txHandle = TRUE
    /\ listenTask = "running"
    /\ connTask = "running"
    /\ subs = NoStreams
    /\ inflight = NoCalls

\* the request add builds for the route, before it is executed
EncodeRoute ==
    /\ last.op = "route"
    /\ AddValidation(last.arg) = "ok"
    /\ last' = Call("request", last.arg, "Ok",
                    <<Req("NewRoute", IpVersion(last.arg.destination),
                          <<AddRequest(last.arg)>>)>>, <<>>)
    /\ krt' = krt

\* Route::from applied to that request message
DecodeRequest ==
    /\ last.op = "request"
    /\ last' = [last EXCEPT !.op = "decoded",
                            !.out = <<RouteFromMessage(last.sent[1].body[1])>>]
    /\ krt' = krt

NextCodec ==
    \/ EncodeRoute /\ UNCHANGED <<ruleVars, eventVars, callVars>>
    \/ DecodeRequest /\ UNCHANGED <<ruleVars, eventVars, callVars>>

SpecCodec == InitCodec /\ [][NextCodec]_vars

\* Concurrent delete calls on the tables other tools may have left.
RaceRoutes ==
    { MkRoute(Net4, 24, Some(Gw4a), RT_TABLE_MAIN, None),
      MkRoute(Net4, 24, Some(Gw4a), 300, None),
      MkRoute(V4Unspecified, 0, Some(Gw4a), RT_TABLE_MAIN, None),
      MkRoute(Net6, 64, Some(Gw6), RT_TABLE_MAIN, None),
      MkRoute(Net4, 24, Some(Gw4a), RT_TABLE_MAIN, Some(100)) }

InitRace ==
    /\ krt \in InitTables
    /\ krules = <<>>
    /\ last = InitCall
    /\ feed = <<>>
    /\ emitted = 0
    /\ chan = <<>>
    /\ txHandle = TRUE
    /\ listenTask = "running"
    /\ connTask = "running"
    /\ subs = NoStreams
    /\ inflight = NoCalls

NextRace ==
    \/ \E c \in Callers, route \in RaceRoutes :
          DeleteScan(c, route) /\ UNCHANGED <<ruleVars, eventVars>>
    \/ \E c \in Callers : DeleteSend(c) /\ UNCHANGED <<ruleVars, eventVars>>

SpecRace == InitRace /\ [][NextRace]_vars

(***************************************************************************)
(* Vocabulary of the route claims, stated on the wire messages themselves  *)
(***************************************************************************)
TripleOf(route) == <<route.destination, route.prefix, route.metric>>

\* positions in the kernel table of the entries of route's family that
\* decode to route's (destination, prefix, metric)
Sharing(tbl, route) ==
    { i \in 1..Len(tbl) :
        /\ tbl[i].header.address_family = route.destination[1]
        /\ TripleOf(RouteFromMessage(tbl[i])) = TripleOf(route) }

DelRequests(sent) == { i \in 1..Len(sent) : sent[i].kind = "DelRoute" }

WithoutGateway(msg) ==
    SelectSeq(msg.attributes, LAMBDA a : a.tag # "Gateway")

FamilyMismatch(route) ==
    \E opt \in {route.gateway, route.source, route.source_hint} :
        opt # <<>> /\ opt[1][1] # route.destination[1]

\* C1: a successful delete(route) lists route's family, replays the message
\* of the first listed entry sharing route's (destination, prefix, metric)
\* in one delete request, and removes exactly that entry: every other
\* entry, one that differs only in gateway included, remains.
C1_DeleteFirstScanned ==
    [][ (last'.op = "delete" /\ last'.res = "Ok") =>
        LET route == last'.arg
            hits  == Sharing(krt, route)
        IN /\ hits # {}
           /\ LET first == CHOOSE i \in hits : \A j \in hits : i <= j
              IN /\ last'.sent =
                       << Req("GetRoute", route.destination[1], <<>>),
                          Req("DelRoute", route.destination[1], <<krt[first]>>) >>
                 /\ krt' = RemoveAt(krt, first)
                 /\ Cardinality(Sharing(krt', route)) = Cardinality(hits) - 1
      ]_vars

\* C1 witness: a delete succeeded and a route that differs from the deleted
\* one only in gateway is still in the kernel table.
C1_Witness ==
    /\ last.op = "delete" /\ last.res = "Ok"
    /\ \E i \in Sharing(krt, last.arg) :
          LET gone == last.sent[2].body[1]
          IN /\ krt[i].header = gone.header
             /\ WithoutGateway(krt[i]) = WithoutGateway(gone)
             /\ krt[i] # gone

C5_AddValidation ==
    [][ last'.op = "add" =>
        /\ (last'.res = "InvalidInput") <=> FamilyMismatch(last'.arg)
        /\ FamilyMismatch(last'.arg) => (last'.sent = <<>> /\ krt' = krt)
        /\ ~FamilyMismatch(last'.arg) =>
              (Len(last'.sent) = 1 /\ last'.sent[1].kind = "NewRoute")
      ]_vars

\* C5 witness: an add was refused for a mismatched source hint alone.
C5_Witness ==
    /\ last.op = "add" /\ last.res = "InvalidInput"
    /\ last.sent = <<>>
    /\ last.arg.source_hint # <<>>
    /\ last.arg.gateway = <<>>

\* entries of list() equal to route in destination/prefix, table and gateway
Listed(tbl, route) ==
    { i \in 1..Len(List(tbl)) :
        /\ List(tbl)[i].destination = route.destination
        /\ List(tbl)[i].prefix = route.prefix
        /\ List(tbl)[i].table = route.table
        /\ List(tbl)[i].gateway = route.gateway }

AddListed ==
    (last'.op = "add" /\ last'.res = "Ok") => Listed(krt', last'.arg) # {}

\* C6 as stated: add then list shows the route; a successful delete of an
\* equivalent Route removes it from list() and a further delete is NotFound.
C6_Original ==
    [][ /\ AddListed
        /\ (last'.op = "delete" /\ last'.res = "Ok") =>
              /\ Listed(krt', last'.arg) = {}
              /\ Sharing(krt', last'.arg) = {}
      ]_vars

\* C6 amended: the delete part holds when the route is the only one of its
\* family with its (destination, prefix, metric) in the kernel table.
C6_AddListDelete ==
    [][ /\ AddListed
        /\ (/\ last'.op = "delete" /\ last'.res = "Ok"
            /\ Cardinality(Sharing(krt, last'.arg)) = 1) =>
              /\ \A i \in Listed(krt', last'.arg) :
                    List(krt')[i].metric # last'.arg.metric
              /\ Sharing(krt', last'.arg) = {}
              /\ Len(krt') = Len(krt) - 1
      ]_vars

\* C6 witness: the route just deleted was in the table and is gone.
C6_Witness ==
    /\ last.op = "delete" /\ last.res = "Ok"
    /\ Sharing(krt, last.arg) = {}
    /\ Listed(krt, last.arg) = {}
    /\ RouteFromMessage(last.sent[2].body[1]).gateway = last.arg.gateway
    /\ RouteFromMessage(last.sent[2].body[1]).table = last.arg.table

(***************************************************************************)
(* Rule batch claims                                                       *)
(***************************************************************************)
\* the kernel rules a sequence of accepted requests installs
RECURSIVE Installed(_)
Installed(sent) ==
    IF sent = <<>> THEN <<>>
    ELSE <<KernelRule(Head(sent).body[1])>> \o Installed(Tail(sent))

Rejected(request) == KernelRuleInvalid(request.body[1])

\* C3: add_rules sends the rules one at a time in input order; at the first
\* rejected request it returns that error, sends nothing for the rules after
\* it and keeps every earlier rule applied; with no rejection all are applied.
C3_AddRulesFailFast ==
    [][ last'.op = "add_rules" =>
        LET rules == last'.arg
            sent  == last'.sent
            n     == Len(sent)
        IN /\ n <= Len(rules)
           /\ \A k \in 1..n :
                 sent[k] = Req("NewRule", RuleFamily(rules[k]),
                               <<RuleAddRequest(rules[k])>>)
           /\ \A k \in 1..(n - 1) : ~Rejected(sent[k])
           /\ IF n > 0 /\ Rejected(sent[n])
              THEN /\ last'.res = "Other"
                   /\ krules' = krules \o Installed(SubSeq(sent, 1, n - 1))
              ELSE /\ last'.res = "Ok"
                   /\ n = Len(rules)
                   /\ krules' = krules \o Installed(sent)
      ]_vars

\* C3 witness: the first rule of a batch of two was rejected and the second,
\* which the kernel would accept, was never sent.
C3_Witness ==
    /\ last.op = "add_rules" /\ last.res = "Other"
    /\ Len(last.arg) = 2 /\ Len(last.sent) = 1
    /\ ~KernelRuleInvalid(RuleAddRequest(last.arg[2]))

FailedRules(out) == { out[i][1] : i \in 1..Len(out) }

\* C4: delete_rules sends a delete request for every rule, in input order;
\* it returns an error iff some deletion failed, the error listing each
\* failed rule with its cause; each deletion that succeeded removed one rule.
C4_DeleteRulesBestEffort ==
    [][ last'.op = "delete_rules" =>
        LET rules == last'.arg
            sent  == last'.sent
            out   == last'.out
        IN /\ Len(sent) = Len(rules)
           /\ \A k \in 1..Len(rules) :
                 sent[k] = Req("DelRule", RuleFamily(rules[k]),
                               <<RuleDelRequest(rules[k])>>)
           /\ (last'.res = "Other") <=> (out # <<>>)
           /\ (last'.res = "Ok") <=> (out = <<>>)
           /\ Len(krules') = Len(krules) - (Len(rules) - Len(out))
           /\ \A i \in 1..Len(out) :
                 /\ out[i][2] \in {"EINVAL", "ENOENT"}
                 /\ out[i][2] = "EINVAL" <=> Rejected(Req("DelRule", 0,
                                               <<RuleDelRequest(out[i][1])>>))
                 /\ out[i][2] = "ENOENT" =>
                       KernelRuleFind(krules', RuleDelRequest(out[i][1])) = 0
                 /\ \E k \in 1..Len(rules) : rules[k] = out[i][1]
           /\ \A k \in 1..Len(rules) :
                 (\/ KernelRuleInvalid(RuleDelRequest(rules[k]))
                  \/ KernelRuleFind(krules, RuleDelRequest(rules[k])) = 0)
                 => rules[k] \in FailedRules(out)
      ]_vars

\* C4 witness: the first deletion of a batch failed, the second was still
\* sent and succeeded, and the error lists the first rule only.
C4_Witness ==
    /\ last.op = "delete_rules" /\ last.res = "Other"
    /\ Len(last.arg) = 2 /\ Len(last.sent) = 2
    /\ Len(last.out) = 1
    /\ last.out[1][1] = last.arg[1]
    /\ last.arg[2] # last.arg[1]

(***************************************************************************)
(* Event stream claims                                                     *)
(***************************************************************************)
Unread(s) == Len(chan) - subs[s].next

\* C7: once the Handle is dropped, every stream obtained before ends: it
\* reaches end-of-stream instead of waiting forever.
C7_StreamEndsAfterDrop ==
    \A s \in Subscribers :
        (~txHandle /\ subs[s].state = "open") ~> (subs[s].state = "ended")

\* C7 witness: a stream that delivered events ended after the drop.
C7_Witness ==
    \E s \in Subscribers :
        /\ ~txHandle
        /\ subs[s].state = "ended"
        /\ subs[s].got # <<>>

\* C8: the listener can always publish the next inbound message, whatever
\* the backlog of a subscriber and with or without subscribers; a stream
\* ends only when the channel is closed and drained, never for lagging, and
\* a stream with unread events can always take its next step.
C8_PublisherNeverBlocked ==
    /\ (listenTask = "running" /\ feed # <<>>) => ENABLED ListenStep
    /\ \A s \in Subscribers :
          /\ subs[s].state = "ended" => (~txHandle /\ listenTask = "gone"
                                          /\ Unread(s) = 0)
          /\ (subs[s].state = "open" /\ Unread(s) > 0) =>
                ENABLED (RecvOk(s) \/ RecvLagged(s))

\* C8 witness: the listener is about to publish while the subscriber has
\* more unread events than the channel holds.
C8_Witness ==
    \E s \in Subscribers :
        /\ subs[s].state = "open"
        /\ Unread(s) > Capacity
        /\ listenTask = "running"
        /\ feed # <<>>
        /\ Published(feed[1]) # <<>>

\* the observation is one contiguous stretch of the published sequence
Contiguous(got, ch) ==
    \/ got = <<>>
    \/ \E k \in Len(got)..Len(ch) : got = SubSeq(ch, k - Len(got) + 1, k)

\* C9 as stated: what a subscriber has observed is a suffix of what had
\* been published when it observed it, one stretch without gaps.
C9_Original ==
    \A s \in Subscribers : Contiguous(subs[s].got, chan)

\* C9 amended: the observation may have gaps; a stream moves its cursor
\* only by delivering the oldest unread event, or, with more than Capacity
\* unread events, by losing exactly the oldest ones that are no longer
\* retained and resuming at the oldest retained event.
C9_LossOfOldestUnread ==
    [][ \A s \in Subscribers :
          LET b == subs[s]
              a == subs'[s]
              unread == Len(chan) - b.next
          IN (b.state = "open" /\ a # b) =>
               \/ /\ unread \in 1..Capacity
                  /\ a = [b EXCEPT !.next = b.next + 1,
                                   !.got = Append(b.got, chan[b.next + 1])]
               \/ /\ unread > Capacity
                  /\ a = [b EXCEPT !.next = Len(chan) - Capacity,
                                   !.lagged = TRUE]
                  /\ Len(chan') - a.next <= Capacity
               \/ /\ unread = 0
                  /\ a = [b EXCEPT !.state = "ended"]
      ]_vars

\* C9 witness: the subscriber lost events between two deliveries.
C9_Witness ==
    \E s \in Subscribers :
        \E i \in 1..(Len(subs[s].got) - 1) :
            subs[s].got[i + 1].seq > subs[s].got[i].seq + 1

\* C10: the channel holds the route events in kernel emission order, and
\* what a subscriber has observed is an order-preserving subsequence of it,
\* no event twice.
C10_EmissionOrder ==
    /\ \A i, j \in 1..Len(chan) : i < j => chan[i].seq < chan[j].seq
    /\ \A s \in Subscribers :
          LET got == subs[s].got
          IN /\ \A i, j \in 1..Len(got) : i < j => got[i].seq < got[j].seq
             /\ \A i \in 1..Len(got) : \E k \in 1..Len(chan) : chan[k] = got[i]

\* C10 witness: a subscriber that joined late has observed several events.
C10_Witness ==
    \E s \in Subscribers :
        /\ Len(subs[s].got) >= 3
        /\ subs[s].got[1].seq > 1
        /\ Len(chan) > subs[s].next


(***************************************************************************)
(* Streams of one Handle                                                   *)
(***************************************************************************)
\* C11: every route_listen_stream() call gets a cursor of its own that
\* starts at the events stored when the call is made, so a stream never
\* yields an event published before its call; a step of one stream (a lag
\* included) changes no other stream, a stream lags only on a backlog of
\* its own of more than Capacity events, and a stream that has never
\* lagged has been handed every event published after its call, up to its
\* cursor, whatever the other stream did.
C11_StreamsIndependent ==
    /\ [](\A s \in DOMAIN subs :
            LET r == subs[s]
            IN /\ \A i \in 1..Len(r.got) :
                    \E k \in (r.start + 1)..Len(chan) : chan[k] = r.got[i]
               /\ (r.state = "open" /\ ~r.lagged) =>
                    r.got = SubSeq(chan, r.start + 1, r.next))
    /\ [][ \A s \in DOMAIN subs :
            LET b == subs[s]
                a == subs'[s]
            IN /\ (b.state = "none" /\ a.state = "open") =>
                    (a.next = Len(chan) /\ a.got = <<>>)
               /\ a # b => \A t \in DOMAIN subs \ {s} : subs'[t] = subs[t]
               /\ (b.state = "open" /\ a.next # b.next /\ Len(a.got) = Len(b.got)) =>
                    (a.lagged /\ Len(chan) - b.next > Capacity)
         ]_vars

\* C11 witness: one stream has lagged while the other, created after the
\* first events were stored, has missed nothing and is up to date.
C11_Witness ==
    \E s, t \in DOMAIN subs :
        /\ subs[s].lagged
        /\ subs[t].state = "open" /\ ~subs[t].lagged
        /\ subs[t].start > 0
        /\ subs[t].got # <<>>
        /\ subs[t].next = Len(chan)
        /\ \E i \in 1..Len(subs[t].got) :
              \A j \in 1..Len(subs[s].got) : subs[s].got[j] # subs[t].got[i]


(***************************************************************************)
(* What reaches the channel                                                *)
(***************************************************************************)
\* C12: the channel grows only when the listener takes a NewRoute or
\* DelRoute message from the inbound feed, and then by the one event
\* Add(decoded message) resp. Delete(decoded message); each such message
\* taken is sent exactly once (and stored when a receiver exists), any
\* other message taken publishes nothing, and no call of the Handle (add,
\* delete, list, default_route, add_rules, delete_rules) touches the feed
\* or the channel.
C12_EventsFromFeedOnly ==
    [][ LET taken == feed # <<>> /\ Len(feed') = Len(feed) - 1
            m == Head(feed)
            isRoute == m.inner /\ m.type \in {"NewRoute", "DelRoute"}
            event == [change |-> IF m.type = "NewRoute" THEN "Add" ELSE "Delete",
                      route |-> RouteFromMessage(m.msg[1]),
                      seq |-> m.seq]
            receivers == \E s \in DOMAIN subs : subs[s].state # "none"
        IN /\ chan' # chan => (taken /\ isRoute /\ chan' = Append(chan, event))
           /\ (taken /\ isRoute /\ receivers) => chan' = Append(chan, event)
           /\ (taken /\ ~isRoute) => chan' = chan
           /\ last' # last => (chan' = chan /\ feed' = feed)
      ]_vars

\* C12 witness: after a successful add and a successful add_rules the
\* channel holds exactly the two route events the listener has relayed,
\* an Add and a Delete, and nothing else.
C12_Witness ==
    /\ krt # <<>>
    /\ krules # <<>>
    /\ last.op \in {"delete", "default_route"}
    /\ Len(chan) = 2
    /\ chan[1].change = "Add" /\ chan[2].change = "Delete"
    /\ emitted = 2
    /\ feed = <<>>


(***************************************************************************)
(* Retries                                                                 *)
(***************************************************************************)
\* C13: add(route) repeated right after it returned Ok returns Ok again and
\* leaves the kernel table as it was, with the single entry of the route.
C13_RetryAddOk ==
    [][ (last.op = "add" /\ last.res = "Ok" /\ last'.op = "add"
         /\ last'.arg = last.arg) =>
           (last'.res = "Ok" /\ krt' = krt)
      ]_vars


\* C14: every rule request of add_rules is a replace request, and
\* add_rules([r]) repeated right after it returned Ok returns Ok again and
\* leaves the kernel rule set as the first call left it.
C14_RetryAddRulesSame ==
    [][ /\ last'.op = "add_rules" =>
             \A i \in 1..Len(last'.sent) : last'.sent[i].body[1].replace
        /\ (last.op = "add_rules" /\ last.res = "Ok" /\ Len(last.arg) = 1
            /\ last'.op = "add_rules" /\ last'.arg = last.arg) =>
              (last'.res = "Ok" /\ krules' = krules)
      ]_vars


(***************************************************************************)
(* Listings                                                                *)
(***************************************************************************)
Family(tbl, family) == SelectSeq(tbl, LAMBDA m : m.header.address_family = family)

NoDestination(msg) ==
    \A i \in 1..Len(msg.attributes) : msg.attributes[i].tag # "Destination"

\* C15: default_route() returns the first message without a Destination
\* attribute of the IPv4 listing followed by the IPv6 listing, decoded,
\* its destination being the unspecified address of the message's family;
\* it returns None exactly when both listings complete and no message
\* lacks the attribute; a hit in the IPv4 listing ends the call before the
\* IPv6 listing is requested.
C15_DefaultRouteFirstHit ==
    [][ last'.op = "default_route" =>
          LET v4 == Family(krt, 4)
              scan == v4 \o Family(krt, 6)
              hits == { i \in 1..Len(scan) : NoDestination(scan[i]) }
              first == CHOOSE i \in hits : \A j \in hits : i <= j
          IN /\ last'.arg = <<>> =>
                  (last'.res = "Ok" /\ (last'.out = None <=> hits = {}))
             /\ (last'.res = "Ok" /\ last'.out = None) => hits = {}
             /\ (last'.res = "Ok" /\ last'.out # None) =>
                  /\ hits # {}
                  /\ last'.out = Some(RouteFromMessage(scan[first]))
                  /\ last'.out[1].destination =
                        <<scan[first].header.address_family, 0>>
                  /\ first <= Len(v4) =>
                        last'.sent = <<Req("GetRoute", 4, <<>>)>>
             /\ krt' = krt
      ]_vars

\* C15 witness: default_route() returned a route after passing over an
\* entry that carries a destination.
C15_Witness ==
    /\ last.op = "default_route"
    /\ last.out # None
    /\ Len(krt) >= 2
    /\ ~NoDestination(krt[1])


\* C16: list() returns the decoded IPv4 messages followed by the decoded
\* IPv6 messages, each family in the order of the kernel's response, one
\* route per message, nothing merged or reordered; when either dump ends
\* in an error the call returns the error and no route at all.
C16_ListInResponseOrder ==
    [][ last'.op = "list" =>
          LET scan == Family(krt, 4) \o Family(krt, 6)
          IN /\ last'.arg = <<>> =>
                  /\ last'.res = "Ok"
                  /\ Len(last'.out) = Len(krt)
                  /\ \A i \in 1..Len(scan) :
                        last'.out[i] = RouteFromMessage(scan[i])
             /\ last'.arg # <<>> =>
                  (last'.res = "Other" /\ last'.out = <<>>)
             /\ krt' = krt
      ]_vars

\* C16 witness: a table of three routes whose first entry is an IPv6 route
\* has been listed.
C16_Witness ==
    /\ last.op = "list"
    /\ last.res = "Ok"
    /\ Len(last.out) = 3
    /\ krt[1].header.address_family = 6
    /\ last.out[1].destination[1] = 4


(***************************************************************************)
(* Encoding and decoding of routes                                         *)
(***************************************************************************)
\* C17: for a Route with every optional field set and all addresses of one
\* family, decoding the request message add builds gives back a Route
\* equal to it in every field; the table comes back whether the request
\* carries it in the header (up to 255) or in a Table attribute (above).
C17_RoundTrip ==
    last.op = "decoded" =>
        /\ last.out = <<last.arg>>
        /\ LET msg == last.sent[1].body[1]
               inAttr == \E i \in 1..Len(msg.attributes) :
                            msg.attributes[i].tag = "Table"
           IN inAttr <=> last.arg.table > 255

\* C17 witness: a route of a table above 255 has made the round trip, its
\* table carried in a Table attribute.
C17_Witness ==
    /\ last.op = "decoded"
    /\ last.arg.table = 300
    /\ last.arg.destination = V4Unspecified
    /\ last.sent[1].body[1].header.table = RT_TABLE_MAIN


(***************************************************************************)
(* Rules as installed, listed and deleted                                  *)
(***************************************************************************)
HasAttribute(msg, tag, val) ==
    \E i \in 1..Len(msg.attributes) :
        msg.attributes[i].tag = tag /\ msg.attributes[i].val = val

\* C18: once add_rules([r]) has returned Ok for a rule r with a destination
\* and a table id, a list_rules() that follows returns a rule whose
\* attributes hold both Destination(r's destination address) and Table(r's
\* table id), and a delete_rules([r]) that follows returns Ok.
C18_AddListDeleteRule ==
    [][ (/\ last.op = "add_rules" /\ last.res = "Ok" /\ Len(last.arg) = 1
         /\ last.arg[1].dst # None /\ last.arg[1].table_id # None) =>
          LET r == last.arg[1]
          IN /\ (last'.op = "list_rules" /\ last'.res = "Ok") =>
                  \E i \in 1..Len(last'.out) :
                      /\ HasAttribute(last'.out[i], "Destination", r.dst[1][1])
                      /\ HasAttribute(last'.out[i], "Table", <<r.table_id[1]>>)
             /\ (last'.op = "delete_rules" /\ last'.arg = last.arg) =>
                  last'.res = "Ok"
      ]_vars


\* C20: in every rule request add_rules or delete_rules sends, each Source
\* and each Destination attribute holds an address of the family of the
\* request header, the one selected by the rule's v6.
C20_RuleRequestFamilies ==
    [][ last'.op \in {"add_rules", "delete_rules"} =>
          \A i \in 1..Len(last'.sent) :
              LET req == last'.sent[i].body[1]
              IN /\ req.header.family \in {4, 6}
                 /\ \A k \in 1..Len(req.attributes) :
                       req.attributes[k].tag \in {"Source", "Destination"} =>
                           req.attributes[k].val[1] = req.header.family
      ]_vars


(***************************************************************************)
(* Lifecycle of the Handle                                                 *)
(***************************************************************************)
\* Running: the Handle exists; Stopped: it has been dropped.
Stopped == ~txHandle

TaskOrder(task) ==
    CASE task = "running" -> 0 [] task = "aborting" -> 1 [] task = "gone" -> 2

\* construction starts both tasks, teardown happens once and asks both
\* tasks to stop without taking anything from the feed or the channel
Teardown ==
    /\ [](~Stopped => (listenTask = "running" /\ connTask = "running"))
    /\ [][ /\ Stopped => Stopped'
           /\ (~Stopped /\ Stopped') =>
                /\ listenTask' # "running" /\ connTask' # "running"
                /\ feed' = feed /\ chan' = chan /\ subs' = subs
         ]_vars

\* C19 as stated: construction starts both tasks, the Handle stops exactly
\* once, on teardown, both tasks being aborted without draining, and from
\* then on neither task runs: no message enters or leaves the feed by a
\* task's step and no further event is published.
C19_Original ==
    /\ Teardown
    /\ [][ Stopped => (chan' = chan /\ (feed' = feed \/ feed' = <<>>)) ]_vars

\* C19 amended: teardown requests the abort of both tasks; a task whose
\* abort was requested may still finish the poll it is in, so events can be
\* published after teardown, but only until the runtime has dropped the
\* listener; a task never goes back to an earlier stage, a dropped listener
\* leaves feed and channel as they are, and a dropped connection task
\* hands nothing more to the feed.
C19_StoppedAfterCancellation ==
    /\ Teardown
    /\ [][ /\ TaskOrder(listenTask') >= TaskOrder(listenTask)
           /\ TaskOrder(connTask') >= TaskOrder(connTask)
           /\ listenTask = "gone" => (chan' = chan /\ feed' = feed)
           /\ connTask = "gone" => Len(feed') <= Len(feed)
           /\ (Stopped /\ chan' # chan) =>
                (listenTask = "aborting" /\ feed # <<>> /\ feed' = Tail(feed))
         ]_vars

\* C19 witness: the Handle is dropped and both tasks are gone, while a
\* stream still holds unread events in the channel.
C19_Witness ==
    /\ Stopped
    /\ listenTask = "gone" /\ connTask = "gone"
    /\ \E s \in Subscribers : subs[s].state = "open" /\ Len(chan) > subs[s].next


(***************************************************************************)
(* Match criteria of the rule requests                                     *)
(***************************************************************************)
Carries(req, tag) ==
    \E k \in 1..Len(req.attributes) : req.attributes[k].tag = tag

\* C21: the i-th request of add_rules and of delete_rules, built for the
\* i-th rule of the batch, carries FwMark and FwMask exactly when the
\* rule's fw_mark_mask is set, SuppressPrefixLen exactly when its
\* suppress_prefixlength is set and IpProtocol exactly when its protocol is
\* set.
C21_SameMatchCriteria ==
    [][ last'.op \in {"add_rules", "delete_rules"} =>
          \A i \in 1..Len(last'.sent) :
              LET req == last'.sent[i].body[1]
                  rule == last'.arg[i]
              IN /\ Carries(req, "FwMark") <=> rule.fw_mark_mask # None
                 /\ Carries(req, "FwMask") <=> rule.fw_mark_mask # None
                 /\ Carries(req, "SuppressPrefixLen") <=>
                        rule.suppress_prefixlength # None
                 /\ Carries(req, "IpProtocol") <=> rule.protocol # None
      ]_vars


(***************************************************************************)
(* What delete leaves alone                                                *)
(***************************************************************************)
\* C22: a delete(route) call, whatever it returns, leaves the policy rules
\* as they were and removes at most one kernel route, which is of route's
\* address family and decodes to route's (destination, prefix, metric);
\* every other kernel route is the same after the call, and a failed call
\* removes nothing.
C22_DeleteFrame ==
    [][ last'.op = "delete" =>
          LET route == last'.arg
          IN /\ krules' = krules
             /\ last'.res # "Ok" => krt' = krt
             /\ \/ krt' = krt
                \/ \E k \in 1..Len(krt) :
                      /\ krt' = RemoveAt(krt, k)
                      /\ krt[k].header.address_family = route.destination[1]
                      /\ TripleOf(RouteFromMessage(krt[k])) = TripleOf(route)
      ]_vars

\* C22 witness: a delete succeeded and the table still holds two routes,
\* one of them with the same destination and prefix but another metric.
C22_Witness ==
    /\ last.op = "delete" /\ last.res = "Ok"
    /\ Len(krt) = 2
    /\ \E i \in 1..Len(krt) :
          LET r == RouteFromMessage(krt[i])
          IN /\ r.destination = last.arg.destination
             /\ r.prefix = last.arg.prefix
             /\ r.metric # last.arg.metric


(***************************************************************************)
(* Concurrent deletes                                                      *)
(***************************************************************************)
Succeeded == { c \in DOMAIN inflight : inflight[c].res = "Ok" }

\* C23: with delete calls interleaved between their listing and their
\* delete request, a call returns Ok exactly when the entry its scan
\* stopped at is still in the kernel table, and then removes that entry
\* and nothing else; a call whose scanned entry is gone returns an error
\* and removes nothing.  Every removal is the step of exactly one call
\* that returns Ok, so the routes removed are as many as the successful
\* calls, and two successful calls have removed different routes.
C23_ConcurrentDeletes ==
    /\ [](\A c, d \in Succeeded :
            /\ \A i \in 1..Len(krt) : krt[i] # inflight[c].msg[1]
            /\ c # d => inflight[c].msg # inflight[d].msg)
    /\ [][ LET returns == { c \in DOMAIN inflight :
                              inflight[c].pc = "scanned" /\ inflight'[c].pc = "done" }
               oks == { c \in returns : inflight'[c].res = "Ok" }
           IN /\ \A c \in returns :
                    LET msg == inflight[c].msg[1]
                        at == { k \in 1..Len(krt) : krt[k] = msg }
                    IN IF at = {}
                       THEN inflight'[c].res = "Other" /\ krt' = krt
                       ELSE /\ inflight'[c].res = "Ok"
                            /\ \E k \in at : krt' = RemoveAt(krt, k)
              /\ Len(krt) - Len(krt') = Cardinality(oks)
              /\ \A c \in DOMAIN inflight :
                    inflight[c].res = "Ok" => inflight'[c] = inflight[c]
         ]_vars

\* C23 witness: two calls for the same route scanned the same entry; one
\* returned Ok, the other an error, and another route with the same
\* (destination, prefix, metric) is still in the table.
C23_Witness ==
    \E c, d \in DOMAIN inflight :
        /\ inflight[c].res = "Ok"
        /\ inflight[d].res = "Other"
        /\ inflight[c].route = inflight[d].route
        /\ inflight[c].msg = inflight[d].msg
        /\ Sharing(krt, inflight[c].route[1]) # {}

====
